---- MODULE Spec2Model ----
(***************************************************************************)
(* quickrest: the request pipeline of a REST resource controller.          *)
(*                                                                         *)
(*   auth.Middleware.process_view  ->  ApiView.dispatch                    *)
(*       -> JsonView.dispatch (body parsing, post_load)                    *)
(*       -> ApiView.get / post / put / delete  ->  Model (the store)       *)
(*       -> JsonResponse (success envelope or error envelope)              *)
(*                                                                         *)
(* Requests are handled one at a time.  The class-level envelope templates *)
(* of JsonError, the persisted records and the primary-key counter are the *)
(* state that outlives a request.                                          *)
(***************************************************************************)
EXTENDS Integers, Sequences, FiniteSets, TLC

VARIABLES
    store,        \* persisted records: primary key -> [name, price]
    nextPk,       \* the primary key the next saved record receives
    JsonError,    \* class attributes of json.JsonError (shared dicts)
    config,       \* the QuickConfig of the resource bound to the controller
    request,      \* the request being handled and the markers of its handler
    phase,        \* position of the request in the pipeline
    auth,         \* request.auth: <<>> when unset, else <<AuthInfo>>
    json_body,    \* JsonView.json_body
    primary_key,  \* ApiView.primary_key
    result,       \* what the handler returned or raised
    response,     \* the response sent for the request
    store0,       \* the persisted records when the request arrived
    created,      \* <<>>, or <<[pk, fields]>> when the previous request was a
                  \* POST that created that record
    workers,      \* the threads that run ApiView.dispatch at the same time
    hook,         \* a hooks.Hook instance and the progress of its fire()
    view          \* the ApiView subclass: the hooks it overrides

vars == <<store, nextPk, JsonError, config, request, phase, auth, json_body,
          primary_key, result, response, store0, created, workers, hook, view>>

----------------------------------------------------------------------------
(* Bounds *)

\* records ever created (primary keys are 1..MaxPk)
MaxPk == 2

\* calls of Hook.fire on the webhook
MaxFires == 2

----------------------------------------------------------------------------
(* Strings that the code splits are sequences of atoms; " " is the space. *)

SP == " "

RECURSIVE SplitFrom(_, _, _)
SplitFrom(s, i, cur) ==
    IF i > Len(s) THEN <<cur>>
    ELSE IF s[i] = SP THEN <<cur>> \o SplitFrom(s, i + 1, <<>>)
    ELSE SplitFrom(s, i + 1, Append(cur, s[i]))

\* str.split(' '): never empty, consecutive spaces give empty parts
Split(s) == SplitFrom(s, 1, <<>>)

----------------------------------------------------------------------------
(* http.py *)

Reasons == [bad_request |-> "badRequest", invalid_field |-> "invalidField",
            no_key |-> "noKey", integrity_error |-> "integrityError",
            not_found |-> "notFound", server_error |-> "serverError",
            config_error |-> "configError",
            serialization_error |-> "serializationError",
            deserialization_error |-> "deserializationError"]

\* class attributes status_code and reason of the HttpError subclasses
HttpErrorClasses ==
    [RequestError         |-> [status_code |-> 400, reason |-> Reasons.bad_request],
     NotFoundError        |-> [status_code |-> 404, reason |-> Reasons.not_found],
     ServerError          |-> [status_code |-> 500, reason |-> Reasons.server_error],
     SerializationError   |-> [status_code |-> 500, reason |-> Reasons.serialization_error],
     DeserializationError |-> [status_code |-> 400, reason |-> Reasons.deserialization_error],
     ConfigError          |-> [status_code |-> 500, reason |-> Reasons.config_error]]

\* HttpError.__init__: a non-empty reason overrides the class attribute
HttpError(cls, reason) ==
    [exc |-> cls,
     status_code |-> HttpErrorClasses[cls].status_code,
     reason |-> IF reason # "" THEN reason ELSE HttpErrorClasses[cls].reason]

----------------------------------------------------------------------------
(* json.py *)

\* an envelope; the fields a shape does not use stay at their fillers
Env(kind, code, message, reason, name, data) ==
    [kind |-> kind, code |-> code, message |-> message, reason |-> reason,
     name |-> name, data |-> data]

NoEnv == Env("none", 0, "", "", "", <<>>)

\* error_dict(code, msg): {'error': {'code', 'message'}}, no reason entry
error_dict(code, msg) == [code |-> code, message |-> msg, reason |-> ""]

\* the class attributes of JsonError as the module is imported
JsonErrorTemplates ==
    [bad_request    |-> error_dict(400, "Bad request"),
     malformed_body |-> error_dict(400, "Malformed request body"),
     unauthorized   |-> error_dict(401, "Unauthorized request"),
     already_exists |-> error_dict(403, "Resource already exists"),
     not_found      |-> error_dict(404, "Resource not found"),
     bad_method     |-> error_dict(405, "Invalid request method"),
     bad_csv_file   |-> error_dict(415, "Could not import CSV file"),
     server_error   |-> error_dict(500, "Could not process request")]

from_code_not_found_as_400(code) ==
    CASE code \in {400, 404} -> "bad_request"
      [] code = 401 -> "unauthorized"
      [] code = 403 -> "already_exists"
      [] code = 405 -> "bad_method"
      [] code = 500 -> "server_error"
      [] OTHER -> "None"

\* JsonError.from_code: the NAME of the shared dict (a reference, not a copy)
from_code(code) ==
    CASE code = 400 -> "bad_request"
      [] code = 401 -> "unauthorized"
      [] code = 403 -> "already_exists"
      [] code = 404 -> "not_found"
      [] code = 405 -> "bad_method"
      [] code = 500 -> "server_error"
      [] OTHER -> "None"

\* the dict a template name refers to, as an envelope, read from templates t
ErrorEnv(t, tname) ==
    Env("error", t[tname].code, t[tname].message, t[tname].reason, "", <<>>)

JsonResponse_no_status(env) == [status |-> 200, body |-> env]

\* JsonResponse.__init__: status 200 unless the data is an error envelope
JsonResponse(env) ==
    [status |-> IF env.kind = "error" THEN env.code ELSE 200, body |-> env]

NoResponse == [status |-> 0, body |-> NoEnv]

\* an exception that leaves the view uncaught
Escaped(excName) == [status |-> 0, body |-> Env("exception", 0, "", "", excName, <<>>)]

----------------------------------------------------------------------------
(* log.py *)

\* the exception classes `except RuntimeError` catches
RuntimeErrors == {"RuntimeError", "HttpError"} \cup DOMAIN HttpErrorClasses

\* log.Middleware.__call__ around get_response: a RuntimeError is answered
\* with JsonError.server_error, any other exception passes through it
log_Middleware_call(outcome, t) ==
    IF outcome.body.kind = "exception" /\ outcome.body.name \in RuntimeErrors
        THEN JsonResponse(ErrorEnv(t, "server_error"))
    ELSE outcome

----------------------------------------------------------------------------
(* auth.py *)

Users == {1}

\* what jwt.decode finds in a token
TokenInfo ==
    [tokValid    |-> [wellformed |-> TRUE, signed |-> TRUE, expired |-> FALSE,
                      payload |-> [sub |-> 1, perm |-> {"read"}]],
     tokAdmin    |-> [wellformed |-> TRUE, signed |-> TRUE, expired |-> FALSE,
                      payload |-> [sub |-> 1, perm |-> {"read", "write"}]],
     tokExpired  |-> [wellformed |-> TRUE, signed |-> TRUE, expired |-> TRUE,
                      payload |-> [sub |-> 1, perm |-> {"read"}]],
     tokTampered |-> [wellformed |-> TRUE, signed |-> FALSE, expired |-> FALSE,
                      payload |-> [sub |-> 1, perm |-> {"read", "write"}]],
     tokGarbage  |-> [wellformed |-> FALSE, signed |-> FALSE, expired |-> FALSE,
                      payload |-> [sub |-> 1, perm |-> {"read"}]],
     tokNoSub    |-> [wellformed |-> TRUE, signed |-> TRUE, expired |-> FALSE,
                      payload |-> [perm |-> {"read"}]],
     tokNoPerm   |-> [wellformed |-> TRUE, signed |-> TRUE, expired |-> FALSE,
                      payload |-> [sub |-> 1]],
     tokStranger |-> [wellformed |-> TRUE, signed |-> TRUE, expired |-> FALSE,
                      payload |-> [sub |-> 2, perm |-> {"read"}]]]

TokenNames == DOMAIN TokenInfo

Ok(v) == [ok |-> TRUE, value |-> v, error |-> ""]
AuthError(msg) == [ok |-> FALSE, value |-> <<>>, error |-> msg]

\* AuthInfo.__init__ with use_user = True: the user must exist
AuthInfo(user_id, permissions) == [user_id |-> user_id, permissions |-> permissions]

verify_token_no_expiry(token) ==
    IF Len(token) # 1 \/ token[1] \notin TokenNames
        THEN AuthError("Malformed token")
    ELSE LET t == TokenInfo[token[1]] IN
        IF ~t.wellformed THEN AuthError("Malformed token")
        ELSE IF ~t.signed THEN AuthError("Invalid signature")
        ELSE Ok(t.payload)

\* verify_token: the decoded payload, or AuthError
verify_token(token) ==
    IF Len(token) # 1 \/ token[1] \notin TokenNames
        THEN AuthError("Malformed token")
    ELSE LET t == TokenInfo[token[1]] IN
        IF ~t.wellformed THEN AuthError("Malformed token")
        ELSE IF ~t.signed THEN AuthError("Invalid signature")
        ELSE IF t.expired THEN AuthError("Expired token")
        ELSE Ok(t.payload)

\* authorize_token: AuthInfo(decoded['sub'], decoded['perm']); any exception of
\* the construction (missing entry, unknown user) becomes AuthError
authorize_token(token) ==
    LET decoded == verify_token(token) IN
    IF ~decoded.ok THEN decoded
    ELSE IF {"sub", "perm"} \subseteq DOMAIN decoded.value
            /\ decoded.value.sub \in Users
        THEN Ok(AuthInfo(decoded.value.sub, decoded.value.perm))
    ELSE AuthError("Invalid JWT fields")

NoHeader == [set |-> FALSE, value |-> <<>>]
Header(s) == [set |-> TRUE, value |-> s]

\* get_bearer_token: the second space-delimited part of the header
get_bearer_token(header) ==
    IF ~header.set THEN AuthError("No bearer token in request")
    ELSE LET parts == Split(header.value) IN
        IF Len(parts) < 2 THEN AuthError("Bad bearer token")
        ELSE Ok(parts[2])

\* authorize_request: splits what get_bearer_token returned into two parts
authorize_request(header) ==
    LET got == get_bearer_token(header) IN
    IF ~got.ok THEN got
    ELSE LET parts == Split(got.value) IN
        IF Len(parts) # 2 THEN AuthError("Could not read bearer token")
        ELSE IF parts[1] # <<"Bearer">>
            THEN AuthError("Authorization type not supported")
        ELSE authorize_token(parts[2])

\* the callables given to auth_override in this model:
\*   tokenOnly  authorizes the bearer token: authorize_token(get_bearer_token)
\*   allowAll   accepts every request and attaches nothing
CustomVerifiers == {"tokenOnly", "allowAll"}

\* auth_method(request): Ok(<<AuthInfo>>) / Ok(<<>>) or AuthError
auth_override(auth_method, header) ==
    IF auth_method = "tokenOnly"
        THEN LET got == get_bearer_token(header) IN
             IF ~got.ok THEN got
             ELSE LET a == authorize_token(got.value) IN
                  IF a.ok THEN Ok(<<a.value>>) ELSE a
    ELSE Ok(<<>>)

\* the markers set on a view by auth_exempt, auth_override, permissions_required
Handler(exempt, method, perms) ==
    [auth_exempt |-> exempt, auth_method |-> method, required_permissions |-> perms]

is_exempt_always(handler) == TRUE

\* getattr(callback, AUTH_EXEMPT_ATTR, False)
is_exempt(handler) == handler.auth_exempt

process_view_ignores_exemption(handler, header, t) ==
    LET v == IF handler.auth_method # "None"
                      THEN auth_override(handler.auth_method, header)
                  ELSE LET a == authorize_request(header) IN
                       IF a.ok THEN Ok(<<a.value>>) ELSE a
         IN
         IF ~v.ok
             THEN [kind |-> "respond", auth |-> <<>>,
                   response |-> JsonResponse(ErrorEnv(t, "unauthorized"))]
         ELSE IF handler.required_permissions = {}
             THEN [kind |-> "pass", auth |-> v.value, response |-> NoResponse]
         ELSE IF v.value = <<>>
             THEN [kind |-> "raise", auth |-> v.value,
                   response |-> Escaped("AttributeError")]
         ELSE IF handler.required_permissions \subseteq v.value[1].permissions
             THEN [kind |-> "pass", auth |-> v.value, response |-> NoResponse]
         ELSE [kind |-> "respond", auth |-> v.value,
               response |-> JsonResponse(ErrorEnv(t, "unauthorized"))]

\* Middleware.process_view: "pass" (returns None), "respond" (a 401 response)
\* or "raise" (an exception other than AuthError)
process_view(handler, header, t) ==
    IF is_exempt(handler)
        THEN [kind |-> "pass", auth |-> <<>>, response |-> NoResponse]
    ELSE LET v == IF handler.auth_method # "None"
                      THEN auth_override(handler.auth_method, header)
                  ELSE LET a == authorize_request(header) IN
                       IF a.ok THEN Ok(<<a.value>>) ELSE a
         IN
         IF ~v.ok
             THEN [kind |-> "respond", auth |-> <<>>,
                   response |-> JsonResponse(ErrorEnv(t, "unauthorized"))]
         ELSE IF handler.required_permissions = {}
             THEN [kind |-> "pass", auth |-> v.value, response |-> NoResponse]
         ELSE IF v.value = <<>>
             THEN [kind |-> "raise", auth |-> v.value,
                   response |-> Escaped("AttributeError")]
         ELSE IF handler.required_permissions \subseteq v.value[1].permissions
             THEN [kind |-> "pass", auth |-> v.value, response |-> NoResponse]
         ELSE [kind |-> "respond", auth |-> v.value,
               response |-> JsonResponse(ErrorEnv(t, "unauthorized"))]

----------------------------------------------------------------------------
(* models.py *)

\* a QuickConfig; has_name / has_plural tell whether the attribute is defined,
\* mutable_fields and serializable_fields are <<>> for None, else <<set>>
QuickConfig(has_name, name, has_plural, plural_name, mutable, serializable) ==
    [has_name |-> has_name, name |-> name,
     has_plural |-> has_plural, plural_name |-> plural_name,
     mutable_fields |-> mutable, serializable_fields |-> serializable]

\* BaseQuickConfig.name
BaseQuickConfigName == "model"

\* the resources a controller is bound to in this model
Configs ==
    { QuickConfig(TRUE, "widget", FALSE, "", <<{"name", "price"}>>, <<>>),
      QuickConfig(TRUE, "gadget", TRUE, "gadgetry", <<{"name"}>>, <<{"id", "name"}>>),
      QuickConfig(FALSE, "", FALSE, "", <<>>, <<>>) }

\* ApiView.model = None: the controller is bound to no resource
NoModel == [model |-> "None"]

\* Model.model_name
model_name(c) == IF c.has_name THEN c.name ELSE BaseQuickConfigName

\* Model.model_plural_name
model_plural_name(c) ==
    IF c.has_plural THEN c.plural_name
    ELSE IF c.has_name THEN c.name \o "s"
    ELSE BaseQuickConfigName

\* the concrete fields of the resource besides the primary key "id":
\*   name   required: the unset value 0 does not validate
\*   price  optional, default 0, must not be negative
FieldNames == {"name", "price"}

UnsetValue == [name |-> 0, price |-> 0]

FieldValid(f, v) == IF f = "name" THEN v >= 1 ELSE v >= 0

\* Model.get_model_fields, by name
get_model_fields == {"id"} \cup FieldNames

\* Model.full_clean
full_clean(inst) == \A f \in FieldNames : FieldValid(f, inst[f])

\* Model.new: cls(**kwargs); an unknown keyword is a TypeError -> ModelError
new(F) ==
    IF DOMAIN F \subseteq FieldNames
        THEN [ok |-> TRUE, exc |-> "",
              inst |-> [f \in FieldNames |-> IF f \in DOMAIN F THEN F[f] ELSE UnsetValue[f]]]
    ELSE [ok |-> FALSE, exc |-> "ModelError", inst |-> UnsetValue]

ModelResult(ok, exc, pk, st, np) ==
    [ok |-> ok, exc |-> exc, pk |-> pk, store |-> st, nextPk |-> np]

create_save_first(F, st, np) ==
    LET n == new(F) IN
    IF ~n.ok THEN ModelResult(FALSE, n.exc, 0, st, np)
    ELSE IF ~full_clean(n.inst)
        THEN ModelResult(FALSE, "ValidationError", 0, (np :> n.inst) @@ st, np + 1)
    ELSE ModelResult(TRUE, "", np, (np :> n.inst) @@ st, np + 1)

\* Model.create: new, full_clean, then save
create(F, st, np) ==
    LET n == new(F) IN
    IF ~n.ok THEN ModelResult(FALSE, n.exc, 0, st, np)
    ELSE IF ~full_clean(n.inst) THEN ModelResult(FALSE, "ValidationError", 0, st, np)
    ELSE ModelResult(TRUE, "", np, (np :> n.inst) @@ st, np + 1)

\* the instance after the setattr loop of Model.update
setattrs(c, inst, F) ==
    [f \in FieldNames |->
        IF f \in DOMAIN F /\ f \in c.mutable_fields[1] THEN F[f] ELSE inst[f]]

\* Model.update: `kw in None` is a TypeError -> ModelError; setattr of the
\* whitelisted fields on the instance, full_clean, then save
update(c, pk, F, st, np) ==
    IF DOMAIN F # {} /\ c.mutable_fields = <<>>
        THEN ModelResult(FALSE, "ModelError", pk, st, np)
    ELSE LET inst == setattrs(c, st[pk], F) IN
        IF ~full_clean(inst) THEN ModelResult(FALSE, "ValidationError", pk, st, np)
        ELSE ModelResult(TRUE, "", pk, [st EXCEPT ![pk] = inst], np)

\* Model.delete
delete(pk, st) == [k \in DOMAIN st \ {pk} |-> st[k]]

raw_unset(c, pk, inst) ==
    [fn \in get_model_fields |-> IF fn = "id" THEN pk ELSE UnsetValue[fn]]

\* Model.raw: the serializable fields, all model fields when none configured
raw(c, pk, inst) ==
    LET field_names == IF c.serializable_fields = <<>> THEN get_model_fields
                       ELSE c.serializable_fields[1]
    IN [fn \in field_names |-> IF fn = "id" THEN pk ELSE inst[fn]]

----------------------------------------------------------------------------
(* api.py *)

NoKey == <<>>

\* `if self.primary_key:` the Python truth value: None and 0 are false
truthy(key) == key # NoKey /\ key[1] # 0

NoFields == [f \in {} |-> 0]

\* what a handler did: it returned a dict ("return"), returned one of the
\* shared JsonError dicts ("template"), raised an HttpError ("raise") or
\* raised something else ("escape"); cause is the fault that was translated
Outcome(kind, env, tref, err, cause, pk, st, np) ==
    [kind |-> kind, env |-> env, tref |-> tref, err |-> err, cause |-> cause,
     pk |-> pk, store |-> st, nextPk |-> np]

NoError == [exc |-> "", status_code |-> 0, reason |-> ""]

NoResult == Outcome("none", NoEnv, "", NoError, "", 0, <<>>, 0)

Return(env, pk, st, np) == Outcome("return", env, "", NoError, "", pk, st, np)
ReturnTemplate(tref, st, np) == Outcome("template", NoEnv, tref, NoError, "", 0, st, np)
Raise(err, cause, st, np) == Outcome("raise", NoEnv, "", err, cause, 0, st, np)
Escape(excName, st, np) == Outcome("escape", NoEnv, "", NoError, excName, 0, st, np)

\* an ApiView subclass: removed is the set of the fields its filter_inbound
\* takes out of the resource data; ApiView itself removes none
View(removed) == [filter_inbound |-> removed]
DefaultView == View({})
Views == {DefaultView, View({"price"})}

\* ApiView.filter_inbound, as the subclass overrides it
filter_inbound(v, fields) ==
    [f \in DOMAIN fields \ v.filter_inbound |-> fields[f]]

\* ApiView.read_json: <<>> for None (no entry under the resource name)
read_json(jb) == IF jb.hasEntry THEN <<jb.fields>> ELSE <<>>

\* ApiView.return_model
return_model(c, pk, inst) == Env("single", 0, "", "", model_name(c), raw(c, pk, inst))

\* ApiView.return_models
return_models(c, st) ==
    Env("collection", 0, "", "", model_plural_name(c),
        [pk \in DOMAIN st |-> raw(c, pk, st[pk])])

\* ApiView.validate_model: model.new(**fields) and full_clean of the NEW instance
validate_model(F) ==
    LET n == new(F) IN
    IF ~n.ok THEN n.exc
    ELSE IF ~full_clean(n.inst) THEN "ValidationError"
    ELSE ""

\* ApiView.get: retrieve_model_by_key(self.primary_key, **self.query_params)
\* receives `key` twice when the query string has a parameter of that name
get(c, key, query, st, np) ==
    IF truthy(key) THEN
        IF "key" \in query THEN Escape("TypeError", st, np)
        ELSE IF key[1] \in DOMAIN st
            THEN Return(return_model(c, key[1], st[key[1]]), key[1], st, np)
        ELSE Raise(HttpError("NotFoundError", ""), "DoesNotExist", st, np)
    ELSE Return(return_models(c, st), 0, st, np)

\* ApiView.post (create_model translates ModelError and ValidationError)
post(c, v, key, jb, st, np) ==
    IF truthy(key) THEN ReturnTemplate("bad_method", st, np)
    ELSE LET json == read_json(jb)
             fields == filter_inbound(v, IF json = <<>> THEN NoFields ELSE json[1])
             r == create(fields, st, np)
         IN IF ~r.ok
                THEN Raise(HttpError("RequestError", Reasons.invalid_field), r.exc,
                           r.store, r.nextPk)
            ELSE Return(return_model(c, r.pk, r.store[r.pk]), r.pk, r.store, r.nextPk)

\* ApiView.put: retrieve_model_by_key, validate_model, update_model
put(c, key, jb, st, np) ==
    IF ~truthy(key) THEN ReturnTemplate("bad_method", st, np)
    ELSE LET json == read_json(jb) IN
        IF key[1] \notin DOMAIN st
            THEN Raise(HttpError("NotFoundError", ""), "DoesNotExist", st, np)
        ELSE IF json = <<>> THEN Escape("TypeError", st, np)
        ELSE LET v == validate_model(json[1]) IN
            IF v # ""
                THEN Raise(HttpError("RequestError", Reasons.invalid_field), v, st, np)
            ELSE LET r == update(c, key[1], json[1], st, np) IN
                IF ~r.ok
                    THEN Raise(HttpError("RequestError", Reasons.invalid_field),
                               r.exc, r.store, r.nextPk)
                ELSE Return(return_model(c, r.pk, r.store[r.pk]), r.pk, r.store, r.nextPk)

\* ApiView.delete; integrity tells whether the database refuses the deletion
delete_handler(c, key, integrity, st, np) ==
    IF ~truthy(key)
        THEN Raise(HttpError("RequestError", Reasons.no_key), "", st, np)
    ELSE IF key[1] \notin DOMAIN st
        THEN Raise(HttpError("NotFoundError", ""), "DoesNotExist", st, np)
    ELSE IF integrity
        THEN Raise(HttpError("RequestError", Reasons.integrity_error),
                   "IntegrityError", st, np)
    ELSE Return(Env("success", 0, "", "", "", <<>>), 0, delete(key[1], st), np)

\* View.dispatch: the handler named after the request method
handle(c, v, method, key, query, jb, integrity, st, np) ==
    CASE method = "GET" -> get(c, key, query, st, np)
      [] method = "POST" -> post(c, v, key, jb, st, np)
      [] method = "PUT" -> put(c, key, jb, st, np)
      [] method = "DELETE" -> delete_handler(c, key, integrity, st, np)

----------------------------------------------------------------------------
(* The requests of the environment *)

Body(kind, hasEntry, fields) == [kind |-> kind, hasEntry |-> hasEntry, fields |-> fields]

EmptyBody == Body("empty", FALSE, NoFields)
MalformedBody == Body("malformed", FALSE, NoFields)
\* a JSON mapping without an entry under the resource name
NoEntryBody == Body("json", FALSE, NoFields)

\* the field sets of a body entry: 1 is a valid value, -1 an invalid one,
\* "bogus" is not a field of the resource
BodyFieldNames == FieldNames \cup {"bogus"}

BodyFieldSets ==
    { F \in UNION { [D -> {1, -1}] : D \in SUBSET BodyFieldNames } :
        "bogus" \in DOMAIN F => \A f \in DOMAIN F : F[f] = 1 }

Bodies == {EmptyBody, MalformedBody, NoEntryBody}
            \cup { Body("json", TRUE, F) : F \in BodyFieldSets }

\* JSON that is not a mapping: "scalar" is a value dict.update refuses (a
\* number, true, null, an array of numbers); "pairs" is an array whose items
\* are all two-item sequences, which dict.update reads as key/value pairs:
\* `[]`, or `[["widget", {...}]]`
ScalarBody == Body("scalar", FALSE, NoFields)
EmptyArrayBody == Body("pairs", FALSE, NoFields)
PairsBody == Body("pairs", TRUE, [name |-> 1, price |-> 1])
NonMappingBodies == {ScalarBody, EmptyArrayBody, PairsBody}

\* the key of the URL: none, or an integer (0 is a valid path key)
Keys == {NoKey} \cup { <<k>> : k \in 0..MaxPk }

Methods == {"GET", "POST", "PUT", "DELETE"}

\* query is the set of the parameter names of the query string
Request(handler, header, method, key, body) ==
    [handler |-> handler, header |-> header, method |-> method, key |-> key,
     body |-> body, query |-> {}]

WithQuery(r, query) == [r EXCEPT !.query = query]

NoRequest == Request(Handler(FALSE, "None", {}), NoHeader, "", NoKey, EmptyBody)

Bearer(tok) == Header(<<"Bearer", SP, tok>>)

\* whether the handler of method m looks at the body when the key is k
reads_body(m, k) ==
    \/ m = "POST" /\ (k = NoKey \/ k = <<0>>)
    \/ m = "PUT" /\ k # NoKey

FullBody == Body("json", TRUE, [name |-> 1, price |-> 1])

\* the requests sent to the resource controller: every method, key and body
\* the handler looks at, through a handler whose verifier accepts the token;
\* and writes through the default verifier
ViewRequests ==
    { Request(Handler(FALSE, "tokenOnly", {}), Bearer("tokValid"), m, k, b) :
        m \in Methods, k \in Keys, b \in Bodies }

PipelineRequests ==
    { r \in ViewRequests :
        \/ r.body \in {EmptyBody, MalformedBody}
        \/ r.body = FullBody /\ r.method \in {"POST", "PUT"}
        \/ reads_body(r.method, r.key) }
    \cup { Request(Handler(FALSE, "None", {}), hd, "POST", NoKey, FullBody) :
             hd \in {NoHeader, Bearer("tokValid")} }
    \cup { Request(Handler(FALSE, "None", {}), hd, "DELETE", <<1>>, EmptyBody) :
             hd \in {NoHeader, Bearer("tokValid")} }
    \cup { Request(Handler(FALSE, "tokenOnly", {}), Bearer("tokValid"), m, NoKey, b) :
             m \in {"GET", "POST"}, b \in NonMappingBodies }
    \cup { WithQuery(r, {"key"}) :
             r \in { v \in ViewRequests : v.method = "GET" /\ v.body = EmptyBody
                                          /\ v.key \in {NoKey, <<1>>} } }

\* headers of the requests sent to the authorization layer
AuthHeaders ==
    {NoHeader, Header(<<"Bearer">>), Header(<<"Bearer", SP, SP, "tokValid">>),
     Header(<<"Basic", SP, "tokValid">>),
     Header(<<"Bearer", SP, "tokValid", SP, "tokValid">>)}
        \cup { Bearer(tok) : tok \in TokenNames }

AuthHandlers ==
    { Handler(e, m, p) : e \in BOOLEAN, m \in {"None"} \cup CustomVerifiers,
                         p \in {{}, {"read"}, {"read", "write"}} }

AuthRequests ==
    { Request(h, hd, "GET", NoKey, EmptyBody) : h \in AuthHandlers, hd \in AuthHeaders }

----------------------------------------------------------------------------
(* The pipeline *)

\* no thread besides the one of the pipeline, and no webhook
NoWorkers == <<>>
NoHook == <<>>

TypeOK ==
    /\ phase \in {"Idle", "Unauthorized", "Authorized", "BodyParsed",
                  "Dispatched", "Responded"}
    /\ nextPk \in 1..(MaxPk + 1)
    /\ DOMAIN store \subseteq 1..MaxPk
    /\ config \in Configs \cup {NoModel}

\* the controller before the first request
InitView ==
    /\ store = <<>>
    /\ nextPk = 1
    /\ JsonError = JsonErrorTemplates
    /\ config \in Configs
    /\ request = NoRequest
    /\ phase = "Idle"
    /\ auth = <<>>
    /\ json_body = Body("empty", FALSE, NoFields)
    /\ primary_key = NoKey
    /\ result = NoResult
    /\ response = NoResponse
    /\ store0 = <<>>
    /\ created = <<>>

Init ==
    /\ InitView
    /\ workers = NoWorkers
    /\ hook = NoHook
    /\ view = DefaultView

\* a request arrives (the previous one has been answered)
Receive(Reqs) ==
    /\ phase \in {"Idle", "Responded"}
    /\ \E r \in Reqs :
        /\ r.method = "POST" => nextPk <= MaxPk
        /\ request' = r
    /\ phase' = "Unauthorized"
    /\ auth' = <<>>
    /\ json_body' = Body("empty", FALSE, NoFields)
    /\ primary_key' = NoKey
    /\ result' = NoResult
    /\ response' = NoResponse
    /\ store0' = store
    /\ created' = IF phase = "Responded" /\ request.method = "POST"
                     /\ result.kind = "return" /\ response.status = 200
                  THEN <<[pk |-> result.pk, fields |-> request.body.fields]>>
                  ELSE <<>>
    /\ UNCHANGED <<store, nextPk, JsonError, config, workers, hook, view>>

\* auth.Middleware.process_view
AuthProcessView ==
    /\ phase = "Unauthorized"
    /\ LET pv == process_view(request.handler, request.header, JsonError) IN
        /\ auth' = pv.auth
        /\ IF pv.kind = "pass"
              THEN phase' = "Authorized" /\ UNCHANGED response
           ELSE /\ phase' = "Responded"
                /\ response' = log_Middleware_call(pv.response, JsonError)
    /\ UNCHANGED <<store, nextPk, JsonError, config, request, json_body,
                   primary_key, result, store0, created, workers, hook, view>>

\* try_load_json_request: whether body.update(load_json(request.body)) succeeds
try_load_json_request(body) == body.kind \in {"json", "pairs"}

\* self.json_body after JsonView.dispatch loaded the body: {} when the request
\* has no body, else the dict that body.update filled
LoadedBody(body) ==
    IF body.kind = "empty" THEN Body("json", FALSE, NoFields)
    ELSE Body("json", body.hasEntry, body.fields)

\* JsonView.dispatch up to post_load: a non-empty body that does not load is
\* answered with JsonError.bad_request; ApiView.post_load reads the key and
\* calls read_json, whose self.model.model_name() is an AttributeError when no
\* model is bound
JsonViewDispatch ==
    /\ phase = "Authorized"
    /\ IF request.body.kind # "empty" /\ ~try_load_json_request(request.body)
          THEN /\ response' = JsonResponse(ErrorEnv(JsonError, "bad_request"))
               /\ phase' = "Responded"
               /\ UNCHANGED <<json_body, primary_key>>
       ELSE /\ json_body' = LoadedBody(request.body)
            /\ primary_key' = request.key
            /\ IF config = NoModel
                  THEN /\ response' = log_Middleware_call(Escaped("AttributeError"),
                                                         JsonError)
                       /\ phase' = "Responded"
               ELSE /\ phase' = "BodyParsed"
                    /\ UNCHANGED response
    /\ UNCHANGED <<store, nextPk, JsonError, config, request, auth, result,
                   store0, created, workers, hook, view>>

\* View.dispatch: the handler runs against the store
Handle ==
    /\ phase = "BodyParsed"
    /\ \E integrity \in BOOLEAN :
        /\ integrity => request.method = "DELETE"
        /\ result' = handle(config, view, request.method, primary_key, request.query,
                            json_body, integrity, store, nextPk)
    /\ store' = result'.store
    /\ nextPk' = result'.nextPk
    /\ phase' = "Dispatched"
    /\ UNCHANGED <<JsonError, config, request, auth, json_body, primary_key,
                   response, store0, created, workers, hook, view>>

\* the tail of JsonView.dispatch and the except clause of ApiView.dispatch:
\* a returned dict is rendered; an HttpError writes its reason into the shared
\* dict from_code returns and that dict is rendered
Render ==
    /\ phase = "Dispatched"
    /\ CASE result.kind = "return" ->
              /\ response' = JsonResponse(result.env)
              /\ UNCHANGED JsonError
         [] result.kind = "template" ->
              /\ response' = JsonResponse(ErrorEnv(JsonError, result.tref))
              /\ UNCHANGED JsonError
         [] result.kind = "raise" ->
              LET tref == from_code(result.err.status_code) IN
              IF tref = "None"
                  THEN /\ response' = log_Middleware_call(Escaped("TypeError"), JsonError)
                       /\ UNCHANGED JsonError
              ELSE /\ JsonError' = IF result.err.reason # ""
                                      THEN [JsonError EXCEPT ![tref].reason = result.err.reason]
                                   ELSE JsonError
                   /\ response' = JsonResponse(ErrorEnv(JsonError', tref))
         [] result.kind = "escape" ->
              /\ response' = log_Middleware_call(Escaped(result.cause), JsonError)
              /\ UNCHANGED JsonError
    /\ phase' = "Responded"
    /\ UNCHANGED <<store, nextPk, config, request, auth, json_body, primary_key,
                   result, store0, created, workers, hook, view>>

Next ==
    \/ Receive(PipelineRequests)
    \/ AuthProcessView
    \/ JsonViewDispatch
    \/ Handle
    \/ Render

Spec == Init /\ [][Next]_vars

\* the authorization layer under every header and every handler marker
NextAuth ==
    \/ Receive(AuthRequests)
    \/ AuthProcessView
    \/ JsonViewDispatch
    \/ Handle
    \/ Render

SpecAuth == Init /\ [][NextAuth]_vars

\* a controller that may have no model bound, under a request of each method
NoModelRequests ==
    { Request(Handler(FALSE, "tokenOnly", {}), hd, m, k, b) :
        hd \in {NoHeader, Bearer("tokValid")}, m \in Methods,
        k \in {NoKey, <<1>>}, b \in {EmptyBody, MalformedBody, NoEntryBody, FullBody} }

InitNoModel ==
    /\ store = <<>>
    /\ nextPk = 1
    /\ JsonError = JsonErrorTemplates
    /\ config \in Configs \cup {NoModel}
    /\ request = NoRequest
    /\ phase = "Idle"
    /\ auth = <<>>
    /\ json_body = Body("empty", FALSE, NoFields)
    /\ primary_key = NoKey
    /\ result = NoResult
    /\ response = NoResponse
    /\ store0 = <<>>
    /\ created = <<>>
    /\ workers = NoWorkers
    /\ hook = NoHook
    /\ view = DefaultView

NextNoModel ==
    \/ Receive(NoModelRequests)
    \/ AuthProcessView
    \/ JsonViewDispatch
    \/ Handle
    \/ Render

SpecNoModel == InitNoModel /\ [][NextNoModel]_vars

\* a controller that may override filter_inbound, under reads and writes
FilterRequests ==
    { Request(Handler(FALSE, "tokenOnly", {}), Bearer("tokValid"), m, k, b) :
        m \in Methods, k \in {NoKey, <<1>>},
        b \in {EmptyBody, FullBody, Body("json", TRUE, [name |-> 1]),
               Body("json", TRUE, [name |-> 1, price |-> -1])} }

InitFilter ==
    /\ InitView
    /\ workers = NoWorkers
    /\ hook = NoHook
    /\ view \in Views

NextFilter ==
    \/ Receive(FilterRequests)
    \/ AuthProcessView
    \/ JsonViewDispatch
    \/ Handle
    \/ Render

SpecFilter == InitFilter /\ [][NextFilter]_vars

----------------------------------------------------------------------------
(* ApiView.dispatch on two threads: the statements of its except clause *)

Threads == {1, 2}

Worker(pc, err, tref, resp) == [pc |-> pc, err |-> err, tref |-> tref, response |-> resp]

IdleWorker == Worker("idle", NoError, "None", NoResponse)

InitConc ==
    /\ InitView
    /\ workers = [w \in Threads |-> IdleWorker]
    /\ hook = NoHook
    /\ view = DefaultView

\* super().dispatch(...) raises HttpError as e: the handler of some request
\* with a body that parses raised it
ConcRaise(w) ==
    /\ workers[w].pc = "idle"
    /\ \E r \in PipelineRequests, integrity \in BOOLEAN :
        LET jb == LoadedBody(r.body)
            res == handle(config, view, r.method, r.key, r.query, jb, integrity,
                          store, nextPk)
        IN /\ (r.body.kind = "empty" \/ try_load_json_request(r.body))
           /\ res.kind = "raise"
           /\ workers' = [workers EXCEPT ![w] = Worker("raised", res.err, "None", NoResponse)]
    /\ UNCHANGED <<store, nextPk, JsonError, config, request, phase, auth,
                   json_body, primary_key, result, response, store0, created, hook, view>>

\* error_response = JsonError.from_code(e.status_code)
ConcFromCode(w) ==
    /\ workers[w].pc = "raised"
    /\ workers' = [workers EXCEPT ![w].pc = "referenced",
                                  ![w].tref = from_code(workers[w].err.status_code)]
    /\ UNCHANGED <<store, nextPk, JsonError, config, request, phase, auth,
                   json_body, primary_key, result, response, store0, created, hook, view>>

\* if e.reason: error_response['error']['reason'] = e.reason
ConcSetReason(w) ==
    /\ workers[w].pc = "referenced"
    /\ IF workers[w].tref = "None"
          THEN /\ workers' = [workers EXCEPT ![w].pc = "responded",
                                             ![w].response = Escaped("TypeError")]
               /\ UNCHANGED JsonError
       ELSE /\ JsonError' = IF workers[w].err.reason # ""
                               THEN [JsonError EXCEPT ![workers[w].tref].reason =
                                                           workers[w].err.reason]
                            ELSE JsonError
            /\ workers' = [workers EXCEPT ![w].pc = "written"]
    /\ UNCHANGED <<store, nextPk, config, request, phase, auth, json_body,
                   primary_key, result, response, store0, created, hook, view>>

\* return JsonResponse(error_response): the dict is serialized as it is now
ConcRespond(w) ==
    /\ workers[w].pc = "written"
    /\ workers' = [workers EXCEPT ![w].pc = "responded",
                                  ![w].response =
                                      JsonResponse(ErrorEnv(JsonError, workers[w].tref))]
    /\ UNCHANGED <<store, nextPk, JsonError, config, request, phase, auth,
                   json_body, primary_key, result, response, store0, created, hook, view>>

\* the thread takes its next request
ConcNext(w) ==
    /\ workers[w].pc = "responded"
    /\ workers' = [workers EXCEPT ![w] = IdleWorker]
    /\ UNCHANGED <<store, nextPk, JsonError, config, request, phase, auth,
                   json_body, primary_key, result, response, store0, created, hook, view>>

NextConc ==
    \/ \E w \in Threads : ConcRaise(w)
    \/ \E w \in Threads : ConcFromCode(w)
    \/ \E w \in Threads : ConcSetReason(w)
    \/ \E w \in Threads : ConcRespond(w)
    \/ \E w \in Threads : ConcNext(w)

SpecConc == InitConc /\ [][NextConc]_vars

----------------------------------------------------------------------------
(* hooks.py *)

\* the url attribute of the Hook: not defined on the class ("missing"),
\* defined as None ("unset"), or the URL of an endpoint ("set")
HookUrls == {"missing", "unset", "set"}

\* the keyword arguments of an event
HookKwargs == {NoFields, [event |-> 1], [event |-> 2]}

\* the HTTP response of the endpoint: its body is JSON for a value, or not JSON
HookResponse(kind, value) == [kind |-> kind, value |-> value]
NoHookResponse == HookResponse("none", 0)
HookResponses == {HookResponse("json", v) : v \in {0, 1}} \cup {HookResponse("notjson", 0)}

\* what requests.post does with a usable URL: it returns the response of the
\* endpoint, or raises while sending (a connection error, or an AttributeError
\* from inside the library)
PostOutcome(exc, resp, attempted) ==
    [exc |-> exc, response |-> resp, attempted |-> attempted]

PostOutcomes ==
    { PostOutcome("", r, TRUE) : r \in HookResponses }
        \cup { PostOutcome(e, NoHookResponse, TRUE) : e \in {"ConnectionError", "AttributeError"} }

\* requests.post(url, json = payload): None is not a URL, requests refuses it
\* with MissingSchema before anything is sent
requests_post(url, outcome) ==
    IF url = "unset" THEN PostOutcome("MissingSchema", NoHookResponse, FALSE)
    ELSE outcome

\* Hook.serialize
Hook_serialize(kwargs) == kwargs

Hook_deserialize_lenient(resp) ==
    [ok |-> TRUE, value |-> resp.value]

\* Hook.deserialize: response.json(), a ValueError when the body is not JSON
Hook_deserialize(resp) ==
    IF resp.kind = "json" THEN [ok |-> TRUE, value |-> resp.value]
    ELSE [ok |-> FALSE, value |-> 0]

\* Hook.call: any AttributeError of `requests.post(self.url, json = payload)`,
\* the missing attribute or one raised inside the call, becomes ConfigError
Hook_call(url, payload, outcome) ==
    IF url = "missing" THEN PostOutcome("ConfigError", NoHookResponse, FALSE)
    ELSE LET posted == requests_post(url, outcome) IN
        IF posted.exc = "AttributeError"
            THEN PostOutcome("ConfigError", NoHookResponse, posted.attempted)
        ELSE posted

\* a Hook instance before its first fire; posts are the payloads of the HTTP
\* requests sent, callbacks the results the callback was invoked with
HookObj(url) ==
    [url |-> url, pc |-> "idle", fires |-> 0, kwargs |-> NoFields,
     payload |-> NoFields, response |-> NoHookResponse, result |-> 0,
     raised |-> "", returned |-> <<>>, posts |-> <<>>, callbacks |-> <<>>,
     posts0 |-> 0, callbacks0 |-> 0]

InitHook ==
    /\ InitView
    /\ workers = NoWorkers
    /\ hook \in { HookObj(u) : u \in HookUrls }
    /\ view = DefaultView

\* fire(**kwargs) is called: payload = self.serialize(**kwargs)
HookFire ==
    /\ hook.pc \in {"idle", "done", "raised"}
    /\ hook.fires < MaxFires
    /\ \E kw \in HookKwargs :
        hook' = [hook EXCEPT !.pc = "serialized", !.fires = @ + 1, !.kwargs = kw,
                             !.payload = Hook_serialize(kw),
                             !.response = NoHookResponse, !.result = 0,
                             !.raised = "", !.returned = <<>>,
                             !.posts0 = Len(hook.posts),
                             !.callbacks0 = Len(hook.callbacks)]
    /\ UNCHANGED <<store, nextPk, JsonError, config, request, phase, auth,
                   json_body, primary_key, result, response, store0, created,
                   workers, view>>

\* response = self.call(payload, *args, **kwargs)
HookCall ==
    /\ hook.pc = "serialized"
    /\ \E outcome \in PostOutcomes :
        LET c == Hook_call(hook.url, hook.payload, outcome)
            sent == IF c.attempted THEN Append(hook.posts, hook.payload) ELSE hook.posts
        IN hook' = IF c.exc # ""
                       THEN [hook EXCEPT !.pc = "raised", !.raised = c.exc, !.posts = sent]
                   ELSE [hook EXCEPT !.pc = "called", !.response = c.response,
                                     !.posts = sent]
    /\ UNCHANGED <<store, nextPk, JsonError, config, request, phase, auth,
                   json_body, primary_key, result, response, store0, created,
                   workers, view>>

\* result = self.deserialize(response); ValueError -> RuntimeError
HookDeserialize ==
    /\ hook.pc = "called"
    /\ LET d == Hook_deserialize(hook.response) IN
        hook' = IF d.ok THEN [hook EXCEPT !.pc = "deserialized", !.result = d.value]
                ELSE [hook EXCEPT !.pc = "raised", !.raised = "RuntimeError"]
    /\ UNCHANGED <<store, nextPk, JsonError, config, request, phase, auth,
                   json_body, primary_key, result, response, store0, created,
                   workers, view>>

\* self.callback(result, *args, **kwargs)
HookCallback ==
    /\ hook.pc = "deserialized"
    /\ hook' = [hook EXCEPT !.pc = "calledback",
                            !.callbacks = Append(@, hook.result)]
    /\ UNCHANGED <<store, nextPk, JsonError, config, request, phase, auth,
                   json_body, primary_key, result, response, store0, created,
                   workers, view>>

\* return result
HookReturn ==
    /\ hook.pc = "calledback"
    /\ hook' = [hook EXCEPT !.pc = "done", !.returned = <<hook.result>>]
    /\ UNCHANGED <<store, nextPk, JsonError, config, request, phase, auth,
                   json_body, primary_key, result, response, store0, created,
                   workers, view>>

NextHook ==
    \/ HookFire
    \/ HookCall
    \/ HookDeserialize
    \/ HookCallback
    \/ HookReturn

SpecHook == InitHook /\ [][NextHook]_vars

----------------------------------------------------------------------------
(* Properties *)

\* the handler of the request was invoked
HandlerInvoked == result.kind # "none"

\* process_view has run for the request
AuthDecided == phase \in {"Authorized", "BodyParsed", "Dispatched", "Responded"}

\* the 401 response: the unauthorized envelope, without a reason entry
Unauthorized401 ==
    [status |-> 401,
     body |-> Env("error", 401, "Unauthorized request", "", "", <<>>)]

\* the token of a header that is exactly `Bearer <token>`, else <<>>
BearerTokenOf(header) ==
    IF header.set /\ Len(header.value) = 3 /\ header.value[1] = "Bearer"
       /\ header.value[2] = SP /\ header.value[3] \in TokenNames
    THEN <<header.value[3]>> ELSE <<>>

\* a token with a valid signature, unexpired, carrying sub and perm
GoodToken(tok) ==
    /\ TokenInfo[tok].wellformed /\ TokenInfo[tok].signed /\ ~TokenInfo[tok].expired
    /\ {"sub", "perm"} \subseteq DOMAIN TokenInfo[tok].payload
    /\ TokenInfo[tok].payload.sub \in Users

\* C1: a non-exempt handler with the default verifier and no required
\* permissions: a request whose header is `Bearer <token>` with a good token is
\* not answered 401 and carries the AuthInfo of the token's sub and perm once
\* process_view has run.
C1_ValidBearerIsAuthorized ==
    \A tok \in TokenNames :
        ( /\ AuthDecided
          /\ ~request.handler.auth_exempt
          /\ request.handler.auth_method = "None"
          /\ request.handler.required_permissions = {}
          /\ request.header = Bearer(tok)
          /\ GoodToken(tok) )
        => /\ response.status # 401
           /\ auth = <<AuthInfo(TokenInfo[tok].payload.sub, TokenInfo[tok].payload.perm)>>

\* C2 as stated: a request without Authorization header to a handler without
\* exemption marker is answered 401 with the bare unauthorized envelope and its
\* handler is never invoked.
C2_NoHeaderIs401 ==
    ( /\ AuthDecided
      /\ ~request.header.set
      /\ ~request.handler.auth_exempt )
    => /\ phase = "Responded"
       /\ response = Unauthorized401
       /\ ~HandlerInvoked
       /\ store = store0

\* C2 amended: a request without Authorization header to a handler that has
\* neither the exemption marker nor a custom verifier is answered 401 with the
\* bare unauthorized envelope and its handler is never invoked.
C2_NoHeaderDefaultVerifierIs401 ==
    ( /\ AuthDecided
      /\ ~request.header.set
      /\ ~request.handler.auth_exempt
      /\ request.handler.auth_method = "None" )
    => /\ phase = "Responded"
       /\ response = Unauthorized401
       /\ ~HandlerInvoked
       /\ store = store0

C2_Witness ==
    /\ phase = "Responded"
    /\ ~request.header.set
    /\ ~request.handler.auth_exempt
    /\ request.handler.auth_method = "None"
    /\ response.status = 401

\* why the authorization of a request fails, "" when nothing is wrong with it
FailureCause(header) ==
    IF ~header.set THEN "missing header"
    ELSE LET tok == BearerTokenOf(header) IN
        IF tok = <<>> THEN "malformed header"
        ELSE LET t == TokenInfo[tok[1]] IN
            IF ~t.wellformed THEN "malformed token"
            ELSE IF ~t.signed THEN "tampered signature"
            ELSE IF t.expired THEN "expired token"
            ELSE IF ~GoodToken(tok[1]) THEN "bad payload fields"
            ELSE ""

\* C3: whatever the cause of the failure (missing or malformed header,
\* malformed, tampered or expired token, bad payload fields), the response is
\* the same: status 401 and the unauthorized envelope without a reason entry.
\* It holds of the default verifier, and of a verifier that authorizes the
\* bearer token with authorize_token.
C3_FailuresIndistinguishable ==
    ( /\ AuthDecided
      /\ ~request.handler.auth_exempt
      /\ FailureCause(request.header) # ""
      /\ \/ request.handler.auth_method = "None"
         \/ /\ request.handler.auth_method = "tokenOnly"
            /\ FailureCause(request.header) # "malformed header" )
    => /\ phase = "Responded"
       /\ response = Unauthorized401

C3_Witness ==
    /\ phase = "Responded"
    /\ request.handler = Handler(FALSE, "tokenOnly", {})
    /\ request.header = Bearer("tokExpired")
    /\ response.status = 401

\* the order of the pipeline states
PhaseOrder ==
    { <<"Idle", "Unauthorized">>, <<"Responded", "Unauthorized">>,
      <<"Unauthorized", "Authorized">>, <<"Unauthorized", "Responded">>,
      <<"Authorized", "BodyParsed">>, <<"Authorized", "Responded">>,
      <<"BodyParsed", "Dispatched">>, <<"Dispatched", "Responded">> }

\* the verifier of the request's handler succeeded, or the handler is exempt
AuthorizationSucceeded ==
    \/ request.handler.auth_exempt
    \/ /\ request.handler.auth_method = "allowAll"
    \/ /\ auth # <<>>
       /\ FailureCause(request.header) \in {"", "malformed header"}

\* C4: a request moves through Unauthorized, Authorized, BodyParsed,
\* Dispatched, Responded in that order, skipping ahead only to Responded; the
\* store changes only in the step from BodyParsed to Dispatched of a request
\* whose authorization succeeded and whose body was parsed; a request stopped
\* at authorization or at body parsing is answered with an error envelope and
\* the store is what it was when the request arrived.
C4_PipelineOrder ==
    [][ /\ phase' # phase => <<phase, phase'>> \in PhaseOrder
        /\ phase' = "Authorized" => AuthorizationSucceeded'
        /\ store' # store =>
              /\ phase = "BodyParsed" /\ phase' = "Dispatched"
              /\ AuthorizationSucceeded
              /\ json_body.kind = "json"
              /\ (request.body.kind = "empty" \/ try_load_json_request(request.body))
              /\ request.method \in {"POST", "PUT", "DELETE"}
        /\ (phase \in {"Unauthorized", "Authorized"} /\ phase' = "Responded") =>
              /\ response'.body.kind = "error"
              /\ response'.status \in {400, 401}
              /\ store' = store0
              /\ ~HandlerInvoked'
      ]_vars

C4_Witness ==
    /\ phase = "Responded"
    /\ request.method = "POST"
    /\ auth # <<>>
    /\ store # store0
    /\ response.status = 200

\* C5 as stated: a POST whose path has a key, and a PUT whose path has none,
\* is answered 405 by its handler and the store is unchanged.
C5_KeyMismatchIs405 ==
    ( /\ phase = "Responded"
      /\ HandlerInvoked
      /\ \/ request.method = "POST" /\ request.key # NoKey
         \/ request.method = "PUT" /\ request.key = NoKey )
    => /\ response.status = 405
       /\ store = store0

\* C6 as stated: a DELETE whose key matches no persisted record is answered
\* 404 notFound by its handler and the store is unchanged; a DELETE without key
\* is answered 400 noKey.
C6_DeleteMissingIs404 ==
    ( /\ phase = "Responded"
      /\ HandlerInvoked
      /\ request.method = "DELETE" )
    => /\ (request.key # NoKey /\ request.key[1] \notin DOMAIN store0) =>
              /\ response.status = 404
              /\ response.body.kind = "error"
              /\ response.body.reason = "notFound"
              /\ store = store0
       /\ request.key = NoKey =>
              /\ response.status = 400
              /\ response.body.kind = "error"
              /\ response.body.reason = "noKey"

\* the record pk of st after the whitelisted fields of F are applied to it
Applied(st, pk, F, whitelist) ==
    [f \in FieldNames |->
        IF f \in DOMAIN F /\ f \in whitelist THEN F[f] ELSE st[pk][f]]

\* C7 as stated: a PUT on an existing record of a resource with a whitelist,
\* whose body entry F gives a valid value to each whitelisted field it names,
\* succeeds; the whitelisted fields of F are applied, the other fields of F are
\* ignored, and the fields F does not name keep their values.
C7_PutAppliesWhitelist ==
    ( /\ phase = "Responded"
      /\ HandlerInvoked
      /\ request.method = "PUT"
      /\ request.key # NoKey
      /\ request.key[1] \in DOMAIN store0
      /\ request.body.kind = "json" /\ request.body.hasEntry
      /\ config.mutable_fields # <<>>
      /\ \A f \in DOMAIN request.body.fields \cap config.mutable_fields[1] :
            FieldValid(f, request.body.fields[f]) )
    => /\ response.status = 200
       /\ response.body.kind = "single"
       /\ DOMAIN store = DOMAIN store0
       /\ \A pk \in DOMAIN store0 :
            store[pk] = IF pk = request.key[1]
                            THEN Applied(store0, pk, request.body.fields,
                                         config.mutable_fields[1])
                        ELSE store0[pk]

\* C8: when the validation of a POST or PUT fails (Model.new, full_clean or
\* the assignment loop raised ModelError or ValidationError), the response is
\* 400 with reason invalidField and the store is what it was when the request
\* arrived.
C8_ValidationFailureIsAtomic ==
    ( /\ phase \in {"Dispatched", "Responded"}
      /\ request.method \in {"POST", "PUT"}
      /\ result.cause \in {"ValidationError", "ModelError"} )
    => /\ store = store0
       /\ phase = "Responded" =>
              /\ response.status = 400
              /\ response.body.kind = "error"
              /\ response.body.code = 400
              /\ response.body.reason = "invalidField"

C8_Witness ==
    /\ phase = "Responded"
    /\ request.method = "PUT"
    /\ request.key # NoKey
    /\ request.key[1] \in DOMAIN store0
    /\ request.body.fields = [name |-> 1, price |-> -1]
    /\ config.mutable_fields = <<{"name", "price"}>>
    /\ response.status = 400
    /\ store = store0

\* the names of the serializable fields of the resource
Serializable ==
    IF config.serializable_fields = <<>> THEN {"id", "name", "price"}
    ELSE config.serializable_fields[1]

\* C9: when the previous request was a POST that created record pk from the
\* fields F, a GET of the path with key pk (no query string) returns status 200
\* and the single envelope, keyed by the resource name, holding the
\* serializable fields: the primary key is pk and every field F names has the
\* value F gave it.
C9_CreateThenGet ==
    ( /\ phase = "Responded"
      /\ HandlerInvoked
      /\ created # <<>>
      /\ request.method = "GET"
      /\ request.query = {}
      /\ request.key = <<created[1].pk>> )
    => /\ response.status = 200
       /\ response.body.kind = "single"
       /\ response.body.name = (IF config.has_name THEN config.name ELSE "model")
       /\ DOMAIN response.body.data = Serializable
       /\ \A f \in Serializable :
            /\ f = "id" => response.body.data[f] = created[1].pk
            /\ f \in DOMAIN created[1].fields =>
                    response.body.data[f] = created[1].fields[f]

C9_Witness ==
    /\ phase = "Responded"
    /\ created # <<>>
    /\ created[1].fields = [name |-> 1, price |-> 1]
    /\ request.method = "GET"
    /\ request.query = {}
    /\ request.key = <<created[1].pk>>
    /\ response.status = 200
    /\ response.body.data = [id |-> created[1].pk, name |-> 1, price |-> 1]

\* C10: for every HttpError the dispatcher catches, the response status is the
\* error's status code and the envelope is an error envelope whose code is
\* that status code and whose reason is the error's reason.
C10_ErrorEnvelopeRoundTrip ==
    ( /\ phase = "Responded"
      /\ result.kind = "raise" )
    => /\ response.status = result.err.status_code
       /\ response.body.kind = "error"
       /\ response.body.code = result.err.status_code
       /\ response.body.reason = result.err.reason
       /\ result.err.reason # ""

C10_Witness ==
    /\ phase = "Responded"
    /\ result.kind = "raise"
    /\ result.err.exc = "NotFoundError"
    /\ JsonError.bad_request.reason = "noKey"
    /\ response.status = 404
    /\ response.body.reason = "notFound"

\* the response to a body that does not parse, from the templates as imported
MalformedBody400 == JsonResponse(ErrorEnv(JsonErrorTemplates, "bad_request"))

\* C11 as stated: handling requests leaves the envelope templates of JsonError
\* as they were imported, so the 400 that answers a malformed body carries no
\* reason entry whatever requests came before.
C11_TemplatesUnchanged ==
    /\ JsonError = JsonErrorTemplates
    /\ ( /\ phase = "Responded"
         /\ auth # <<>>
         /\ request.body.kind = "malformed" )
       => response = MalformedBody400

\* C12 as stated: when two threads handle requests that fail with the same
\* status code and different reasons at the same time, the response of each
\* carries the reason of its own error.
C12_OwnReasonUnderInterleaving ==
    \A w \in DOMAIN workers : \A v \in DOMAIN workers \ {w} :
        ( /\ workers[w].pc = "responded"
          /\ workers[v].pc # "idle"
          /\ workers[w].err.status_code = workers[v].err.status_code
          /\ workers[w].err.reason # workers[v].err.reason )
        => /\ workers[w].response.body.kind = "error"
           /\ workers[w].response.body.reason = workers[w].err.reason

\* the envelope the spec asks for when a fault is not an HttpError
ServerError500 ==
    [status |-> 500,
     body |-> Env("error", 500, "Could not process request", "serverError", "", <<>>)]

\* C13 as stated: every request is answered with a response, no exception
\* leaves log.Middleware; when the handler raised something that is not an
\* HttpError the response is the 500 envelope with reason serverError.
C13_NoExceptionEscapes ==
    phase = "Responded"
    => /\ response.body.kind # "exception"
       /\ response.status # 0
       /\ result.kind = "escape" => response = ServerError500

\* JsonView.dispatch has run for the request
BodyStepDone ==
    \/ phase \in {"BodyParsed", "Dispatched"}
    \/ phase = "Responded" /\ (HandlerInvoked \/ response.status = 400)

\* the request was answered by JsonView.dispatch before its handler ran
BodyRejected == phase = "Responded" /\ ~HandlerInvoked /\ response.status = 400

\* C14 as stated: a request is answered at the body-parsing step, with status
\* 400 and the bad-request envelope and without invoking its handler, exactly
\* when its body is not empty and is not a JSON mapping; a request without
\* body is dispatched with the empty mapping as its body.
C14_RejectedIffNotMapping ==
    BodyStepDone
    => /\ BodyRejected <=> request.body.kind \notin {"empty", "json"}
       /\ BodyRejected =>
              /\ response.body.kind = "error"
              /\ response.body.code = 400
              /\ response.body.message = "Bad request"
              /\ store = store0
       /\ (request.body.kind = "empty" /\ ~BodyRejected) =>
              json_body = Body("json", FALSE, NoFields)

\* the verifier process_view chooses for the handler accepted the request
VerifierSucceeded ==
    IF request.handler.auth_method = "None"
        THEN authorize_request(request.header).ok
    ELSE auth_override(request.handler.auth_method, request.header).ok

\* the request got past the authorization layer, to its handler
ReachedHandler == phase \in {"Authorized", "BodyParsed", "Dispatched"} \/ HandlerInvoked

\* C15 as stated: for a non-exempt handler with a non-empty set of required
\* permissions, a request its verifier rejected is answered 401; a request its
\* verifier accepted reaches the handler when every required permission is in
\* the permissions of the AuthInfo attached to the request, and is answered
\* 401 with the unauthorized envelope otherwise.
C15_PermissionCheck ==
    ( /\ AuthDecided
      /\ ~request.handler.auth_exempt
      /\ request.handler.required_permissions # {} )
    => LET permitted ==
               /\ VerifierSucceeded
               /\ auth # <<>>
               /\ request.handler.required_permissions \subseteq auth[1].permissions
       IN /\ permitted => ReachedHandler
          /\ ~permitted => /\ phase = "Responded"
                           /\ response = Unauthorized401
                           /\ ~HandlerInvoked

\* C16: a request to a handler that carries the exemption marker reaches the
\* handler whatever its Authorization header, its verifier markers and its
\* required permissions: nothing is attached to the request, and it is never
\* answered 401 nor stopped by an exception of the authorization layer.
C16_ExemptIsDispatched ==
    ( /\ AuthDecided
      /\ request.handler.auth_exempt )
    => /\ ReachedHandler
       /\ auth = <<>>
       /\ response.status # 401
       /\ response.body.kind # "exception"

C16_Witness ==
    /\ phase = "Responded"
    /\ request.handler = Handler(TRUE, "tokenOnly", {"read", "write"})
    /\ request.header = Bearer("tokExpired")
    /\ HandlerInvoked
    /\ response.status = 200

\* Hook.call has run in the current fire
HookCalled == hook # NoHook /\ hook.pc \notin {"idle", "serialized"}

\* C17 as stated: when the url of the webhook is missing or unset, call raises
\* ConfigError and no HTTP request is sent; ConfigError is raised for no other
\* cause.
C17_ConfigErrorIffNoUrl ==
    HookCalled
    => /\ hook.url \in {"missing", "unset"} =>
              /\ hook.raised = "ConfigError"
              /\ Len(hook.posts) = hook.posts0
       /\ hook.raised = "ConfigError" => hook.url \in {"missing", "unset"}

\* some field of the body entry has a value its field does not accept
BodyInvalid ==
    /\ request.body.hasEntry
    /\ \E f \in DOMAIN request.body.fields \cap FieldNames :
           ~FieldValid(f, request.body.fields[f])

\* C18 as stated (for the keys from 1, which the PUT handler takes as keys): a
\* PUT whose body has an invalid field value is answered 400 invalidField
\* whether or not a record with its key exists, so notFound answers only a PUT
\* whose body is valid.
C18_ValidateBeforeRetrieve ==
    ( /\ phase = "Responded"
      /\ HandlerInvoked
      /\ request.method = "PUT"
      /\ request.key # NoKey
      /\ request.key[1] >= 1 )
    => /\ BodyInvalid =>
              /\ response.status = 400
              /\ response.body.kind = "error"
              /\ response.body.reason = "invalidField"
       /\ response.status = 404 => ~BodyInvalid

\* the name of the resource, and the plural name the spec gives it
ResourceName == IF config.has_name THEN config.name ELSE "model"
ResourcePluralName ==
    IF config.has_plural THEN config.plural_name ELSE ResourceName \o "s"

\* C19 as stated: a GET without key is answered 200 with the collection
\* envelope: one entry, keyed by the plural name of the resource (the
\* configured plural name, else the resource name followed by "s", so never the
\* key of the single envelope), that maps the primary key of every persisted
\* record to the serializable fields of that record.
C19_CollectionEnvelope ==
    ( /\ phase = "Responded"
      /\ HandlerInvoked
      /\ request.method = "GET"
      /\ request.key = NoKey )
    => /\ response.status = 200
       /\ response.body.kind = "collection"
       /\ response.body.name = ResourcePluralName
       /\ response.body.name # ResourceName
       /\ DOMAIN response.body.data = DOMAIN store
       /\ \A pk \in DOMAIN store :
            /\ DOMAIN response.body.data[pk] = Serializable
            /\ \A f \in Serializable :
                 response.body.data[pk][f] = IF f = "id" THEN pk ELSE store[pk][f]

\* the order of the steps of Hook.fire
HookOrder ==
    { <<"idle", "serialized">>, <<"done", "serialized">>, <<"raised", "serialized">>,
      <<"serialized", "called">>, <<"serialized", "raised">>,
      <<"called", "deserialized">>, <<"called", "raised">>,
      <<"deserialized", "calledback">>, <<"calledback", "done">> }

ConfigError500 ==
    [status |-> 500,
     body |-> Env("error", 500, "Could not process request", "configError", "", <<>>)]

\* C21 as stated: on a controller without model, every request that passed
\* authorization and whose body loaded is answered with the 500 envelope with
\* reason configError; no other exception is raised.
C21_NoModelIsConfigError ==
    ( /\ config = NoModel
      /\ phase = "Responded"
      /\ response.status # 401
      /\ (request.body.kind = "empty" \/ try_load_json_request(request.body)) )
    => response = ConfigError500

\* C22 as stated: a field that the filter_inbound of the controller removes is
\* not written by a POST nor by a PUT: after a successful POST the new record
\* has the field unset, after a successful PUT the record has the value it had
\* before, and the removed field takes no part in the validation.
C22_FilterInboundOnWrites ==
    ( /\ phase = "Responded"
      /\ HandlerInvoked
      /\ request.method \in {"POST", "PUT"}
      /\ request.body.hasEntry )
    => \A f \in view.filter_inbound \cap DOMAIN request.body.fields :
           /\ (request.method = "POST" /\ response.status = 200) =>
                  store[result.pk][f] = UnsetValue[f]
           /\ (request.method = "PUT" /\ response.status = 200) =>
                  store[result.pk][f] = store0[result.pk][f]
           /\ ( /\ request.method = "PUT"
                /\ truthy(request.key) /\ request.key[1] \in DOMAIN store0
                /\ \A g \in DOMAIN request.body.fields \ view.filter_inbound :
                       g \in FieldNames /\ FieldValid(g, request.body.fields[g])
                /\ "name" \in DOMAIN request.body.fields )
              => response.status = 200

\* C23 as stated: on a resource without mutable_fields, a PUT on an existing
\* record whose body gives a valid value to every field is not answered with
\* an invalid-field error: it succeeds and the fields are applied.
C23_UpdateWithoutWhitelist ==
    ( /\ phase = "Responded"
      /\ HandlerInvoked
      /\ request.method = "PUT"
      /\ request.key # NoKey
      /\ request.key[1] \in DOMAIN store0
      /\ config.mutable_fields = <<>>
      /\ request.body.hasEntry
      /\ DOMAIN request.body.fields = FieldNames
      /\ \A f \in FieldNames : FieldValid(f, request.body.fields[f]) )
    => /\ response.body.reason # "invalidField"
       /\ response.status = 200
       /\ store[request.key[1]] = request.body.fields

====
